---------------------------- MODULE Spec2Model ----------------------------
(***************************************************************************)
(* Model of the mimir-coordinator cluster-state aggregation:               *)
(*   - the relation databag codec (DatabagModel.load),                     *)
(*   - the provider-side aggregation (gather_roles,                        *)
(*     gather_addresses_by_role, gather_addresses),                        *)
(*   - the coherence policy (is_coherent, missing_roles, is_recommended).  *)
(* The state is the set of "mimir-cluster" relations the coordinator sees: *)
(* for each relation the remote application, its application databag and   *)
(* the databags of its remote units.  Databags are maps from keys to raw   *)
(* strings, exactly as Juju stores them.                                   *)
(* Further components, each with a specification of its own:               *)
(*   - the two ends of the relation (publish_data, MimirClusterRequirer),  *)
(*   - the config builder and its S3 descriptor (MimirConfig),             *)
(*   - the alert rules in the nginx container (_reconcile, _set_alerts),   *)
(*   - the workload manager (WorkloadManager._update_config).              *)
(***************************************************************************)
EXTENDS Integers, Sequences, FiniteSets, Bags, TLC

VARIABLES relations, emitted, s3_config, built,
          alerts, nginx_container, reconciled, workload

vars == <<relations, emitted, s3_config, built,
          alerts, nginx_container, reconciled, workload>>

\* the state of the cluster relations, of the config builder, of the alert
\* rules in the nginx container and of the workload manager
cluster_vars == <<relations, emitted>>
config_vars == <<s3_config, built>>
alerts_vars == <<alerts, nginx_container, reconciled>>
workload_vars == <<workload>>

(***************************************************************************)
(* Bounds of the model.                                                    *)
(***************************************************************************)
MaxUnits == 3

(***************************************************************************)
(* Role vocabulary (mimir_cluster.py, class MimirRole).                    *)
(***************************************************************************)
MimirRole ==
  { "overrides-exporter", "query-scheduler", "flusher", "query-frontend",
    "querier", "store-gateway", "ingester", "distributor", "ruler",
    "alertmanager", "compactor",
    "read", "write", "backend", "all" }

\* "all" given by the three other meta-roles, which one pass of expand_roles
\* does not resolve
META_ROLES_all_of_meta ==
  [ read    |-> {"query-frontend", "querier"},
    write   |-> {"distributor", "ingester"},
    backend |-> {"store-gateway", "compactor", "ruler", "alertmanager",
                 "query-scheduler", "overrides-exporter"},
    all     |-> {"read", "write", "backend"} ]

\* META_ROLES[MimirRole.all] is list(MimirRole): every member of the enum,
\* the four meta-roles included.
META_ROLES ==
  [ read    |-> {"query-frontend", "querier"},
    write   |-> {"distributor", "ingester"},
    backend |-> {"store-gateway", "compactor", "ruler", "alertmanager",
                 "query-scheduler", "overrides-exporter"},
    all     |-> MimirRole ]

Range(s) == { s[i] : i \in DOMAIN s }

expand_roles(roles) ==
  UNION { IF role \in DOMAIN META_ROLES THEN META_ROLES[role] ELSE {role}
          : role \in Range(roles) }

\* list(a_set): its elements once each, in the set's iteration order, which
\* Python leaves unspecified
RECURSIVE list(_)
list(iterable) ==
  IF iterable = {} THEN <<>>
  ELSE LET item == CHOOSE x \in iterable : TRUE
       IN  <<item>> \o list(iterable \ {item})

(***************************************************************************)
(* Deployment policy tables (mimir_coordinator.py).                        *)
(***************************************************************************)
MINIMAL_DEPLOYMENT ==
  [ r \in { "compactor", "distributor", "ingester", "querier",
            "query-frontend", "query-scheduler", "store-gateway",
            "ruler", "alertmanager" } |-> 1 ]

\* the recommended table confused with the minimal one
RECOMMENDED_DEPLOYMENT_minimal == MINIMAL_DEPLOYMENT

RECOMMENDED_DEPLOYMENT ==
  [ r \in { "ingester", "querier", "query-scheduler", "alertmanager",
            "query-frontend", "ruler", "store-gateway", "compactor",
            "distributor" } |->
      CASE r = "ingester" -> 3
        [] r = "querier" -> 2
        [] r = "query-scheduler" -> 2
        [] OTHER -> 1 ]

(***************************************************************************)
(* JSON texts that occur in the databags of the model, and json.loads on   *)
(* them.  A decoded value is tagged with its JSON type; any text that is   *)
(* not JSON decodes to JSONDecodeError.                                    *)
(***************************************************************************)
JSONDecodeError == [type |-> "JSONDecodeError"]

RolesAll == "[\"all\"]"
RolesRead == "[\"read\"]"
RolesMinimal == "[\"compactor\", \"distributor\", \"ingester\", \"querier\", \"query-frontend\", \"query-scheduler\", \"store-gateway\", \"ruler\", \"alertmanager\"]"
RolesUnknown == "[\"querier\", \"foo\"]"
NotJson == "querier"
TopologyText == "{\"model\": \"m\", \"unit\": \"worker/0\"}"

Addresses == {"a1", "a2", "a3"}

\* the JujuTopology a worker unit publishes
Topology == [model |-> "m", unit |-> "worker/0"]

\* the dict {}
EmptyDict == [k \in {} |-> 0]
EmptyDictText == "{}"

\* None, where a dict is optional
NoneType == [cls |-> "NoneType"]
NullText == "null"

\* config documents the coordinator publishes and endpoint dicts, with
\* their JSON texts
ScaledConfig ==
  [ ingester |-> [ ring |-> [ replication_factor |-> 3 ] ],
    memberlist |-> [ join_members |-> <<"a1", "a2", "a3">> ] ]
ScaledConfigText == "{\"ingester\": {\"ring\": {\"replication_factor\": 3}}, \"memberlist\": {\"join_members\": [\"a1\", \"a2\", \"a3\"]}}"
SingleConfig ==
  [ ingester |-> [ ring |-> [ replication_factor |-> 1 ] ],
    memberlist |-> [ join_members |-> <<"a1">> ] ]
SingleConfigText == "{\"ingester\": {\"ring\": {\"replication_factor\": 1}}, \"memberlist\": {\"join_members\": [\"a1\"]}}"
LokiEndpoints == [ loki |-> "http://loki:3100/loki/api/v1/push" ]
LokiText == "{\"loki\": \"http://loki:3100/loki/api/v1/push\"}"

\* the role lists a worker charm is configured with
RoleLists ==
  { <<"write">>, <<"alertmanager">>,
    <<"compactor", "distributor", "ingester", "querier", "query-frontend",
      "query-scheduler", "store-gateway", "ruler", "alertmanager">> }

\* json.dumps of a str (of the plain characters the model uses)
json_dumps_str(s) == "\"" \o s \o "\""

\* json.dumps of a list of str
RECURSIVE json_dumps_items(_)
json_dumps_items(items) ==
  IF Len(items) = 1 THEN json_dumps_str(items[1])
  ELSE json_dumps_str(items[1]) \o ", " \o json_dumps_items(Tail(items))

json_dumps_list(items) ==
  IF items = <<>> THEN "[]" ELSE "[" \o json_dumps_items(items) \o "]"

\* json.dumps of the dict of a JujuTopology
json_dumps_topology(topology) ==
  "{\"model\": " \o json_dumps_str(topology.model)
     \o ", \"unit\": " \o json_dumps_str(topology.unit) \o "}"

\* json.dumps of a config document, of an endpoint dict and of None
json_dumps_dict(value) ==
  CASE value = NoneType -> NullText
    [] value = EmptyDict -> EmptyDictText
    [] value = ScaledConfig -> ScaledConfigText
    [] value = SingleConfig -> SingleConfigText
    [] value = LokiEndpoints -> LokiText

\* the role lists the workers publish: list(expand_roles(roles))
PublishedRoleLists == { list(expand_roles(roles)) : roles \in RoleLists }

json_loads(v) ==
  CASE v = RolesAll -> [type |-> "array", items |-> <<"all">>]
    [] v = RolesRead -> [type |-> "array", items |-> <<"read">>]
    [] v = RolesMinimal ->
         [type |-> "array",
          items |-> <<"compactor", "distributor", "ingester", "querier",
                      "query-frontend", "query-scheduler", "store-gateway",
                      "ruler", "alertmanager">>]
    [] v = RolesUnknown -> [type |-> "array", items |-> <<"querier", "foo">>]
    [] v = "\"a1\"" -> [type |-> "string", str |-> "a1"]
    [] v = "\"a2\"" -> [type |-> "string", str |-> "a2"]
    [] v = "\"a3\"" -> [type |-> "string", str |-> "a3"]
    [] v = TopologyText ->
         [type |-> "object", keys |-> {"model", "unit"},
          model |-> "m", unit |-> "worker/0"]
    [] v = NullText -> [type |-> "null"]
    [] v = EmptyDictText -> [type |-> "object", keys |-> {}, dict |-> EmptyDict]
    [] v = ScaledConfigText ->
         [type |-> "object", keys |-> DOMAIN ScaledConfig, dict |-> ScaledConfig]
    [] v = SingleConfigText ->
         [type |-> "object", keys |-> DOMAIN SingleConfig, dict |-> SingleConfig]
    [] v = LokiText ->
         [type |-> "object", keys |-> DOMAIN LokiEndpoints, dict |-> LokiEndpoints,
          values |-> "string"]
    [] v = NotJson -> JSONDecodeError
    [] OTHER ->
         \* the text of a role list a worker published, or no JSON at all
         LET lists == { roles \in PublishedRoleLists : json_dumps_list(roles) = v }
         IN  IF lists = {} THEN JSONDecodeError
             ELSE [type |-> "array", items |-> CHOOSE roles \in lists : TRUE]

(***************************************************************************)
(* DatabagModel.load (mimir_cluster.py).  The result is either a record    *)
(* with ok = TRUE carrying the validated fields, or DataValidationError.   *)
(***************************************************************************)
\* the builtin keys without the egress subnets
BUILTIN_JUJU_KEYS_addresses_only == {"ingress-address", "private-address"}

BUILTIN_JUJU_KEYS == {"ingress-address", "private-address", "egress-subnets"}

DataValidationError == [ok |-> FALSE]

\* parse_raw with roles typed List[str]: role tokens are not checked
\* against the MimirRole vocabulary
parse_raw_unchecked_roles(cls, data) ==
  CASE cls = "MimirClusterRequirerAppData" ->
         IF /\ "roles" \in DOMAIN data
            /\ data["roles"].type = "array"
         THEN [ok |-> TRUE, roles |-> data["roles"].items]
         ELSE [ok |-> FALSE]
    [] cls = "MimirClusterRequirerUnitData" ->
         IF /\ "juju_topology" \in DOMAIN data
            /\ data["juju_topology"].type = "object"
            /\ {"model", "unit"} \subseteq data["juju_topology"].keys
            /\ "address" \in DOMAIN data
            /\ data["address"].type = "string"
         THEN [ok |-> TRUE,
               juju_topology |-> [model |-> data["juju_topology"].model,
                                  unit |-> data["juju_topology"].unit],
               address |-> data["address"].str]
         ELSE [ok |-> FALSE]
    [] cls = "MimirClusterProviderAppData" ->
         IF /\ "mimir_config" \in DOMAIN data
            /\ data["mimir_config"].type = "object"
            /\ "loki_endpoints" \in DOMAIN data =>
                  \/ data["loki_endpoints"].type = "null"
                  \/ /\ data["loki_endpoints"].type = "object"
                     /\ "values" \in DOMAIN data["loki_endpoints"]
         THEN [ok |-> TRUE,
               mimir_config |-> data["mimir_config"].dict,
               loki_endpoints |->
                 IF "loki_endpoints" \in DOMAIN data
                    /\ data["loki_endpoints"].type = "object"
                 THEN data["loki_endpoints"].dict ELSE NoneType]
         ELSE [ok |-> FALSE]

\* pydantic validation of the decoded data against the model class cls
parse_raw(cls, data) ==
  CASE cls = "MimirClusterRequirerAppData" ->
         IF /\ "roles" \in DOMAIN data
            /\ data["roles"].type = "array"
            /\ \A i \in DOMAIN data["roles"].items :
                  data["roles"].items[i] \in MimirRole
         THEN [ok |-> TRUE, roles |-> data["roles"].items]
         ELSE DataValidationError
    [] cls = "MimirClusterRequirerUnitData" ->
         IF /\ "juju_topology" \in DOMAIN data
            /\ data["juju_topology"].type = "object"
            /\ {"model", "unit"} \subseteq data["juju_topology"].keys
            /\ "address" \in DOMAIN data
            /\ data["address"].type = "string"
         THEN [ok |-> TRUE,
               juju_topology |-> [model |-> data["juju_topology"].model,
                                  unit |-> data["juju_topology"].unit],
               address |-> data["address"].str]
         ELSE DataValidationError
    [] cls = "MimirClusterProviderAppData" ->
         IF /\ "mimir_config" \in DOMAIN data
            /\ data["mimir_config"].type = "object"
            /\ "loki_endpoints" \in DOMAIN data =>
                  \/ data["loki_endpoints"].type = "null"
                  \/ /\ data["loki_endpoints"].type = "object"
                     /\ "values" \in DOMAIN data["loki_endpoints"]
         THEN [ok |-> TRUE,
               mimir_config |-> data["mimir_config"].dict,
               loki_endpoints |->
                 IF "loki_endpoints" \in DOMAIN data
                    /\ data["loki_endpoints"].type = "object"
                 THEN data["loki_endpoints"].dict ELSE NoneType]
         ELSE DataValidationError

\* load without the except clause for json.JSONDecodeError: the decoder's
\* exception reaches the caller
load_json_error_uncaught(cls, databag) ==
  LET keys == DOMAIN databag \ BUILTIN_JUJU_KEYS
      data == [k \in keys |-> json_loads(databag[k])]
  IN  IF \E k \in keys : data[k] = JSONDecodeError
      THEN JSONDecodeError
      ELSE parse_raw(cls, data)

load(cls, databag) ==
  LET keys == DOMAIN databag \ BUILTIN_JUJU_KEYS
      data == [k \in keys |-> json_loads(databag[k])]
  IN  IF \E k \in keys : data[k] = JSONDecodeError
      THEN DataValidationError
      ELSE parse_raw(cls, data)

(***************************************************************************)
(* Databags of the model.                                                  *)
(***************************************************************************)
EmptyDatabag == [k \in {} |-> ""]

\* the databag of a unit that joined and has not published yet: Juju's own
\* keys only
JujuUnitDatabag == [k \in {"ingress-address"} |-> "10.0.0.1"]

\* MimirClusterRequirerUnitData(juju_topology, address).dump(unit_databag):
\* dump clears the databag, then writes one JSON-encoded entry per field
UnitDatabagOf(address) ==
  [k \in {"juju_topology", "address"} |->
     CASE k = "juju_topology" -> TopologyText
       [] k = "address" -> json_dumps_str(address)]

AppDatabagOf(rolesText) == [k \in {"roles"} |-> rolesText]

\* dump writing the raw str of a value where it is one, not its JSON text
dump_str_unencoded(cls, value) ==
  CASE cls = "MimirClusterRequirerAppData" ->
         [ k \in {"roles"} |-> json_dumps_list(value.roles) ]
    [] cls = "MimirClusterRequirerUnitData" ->
         [ k \in {"juju_topology", "address"} |->
             IF k = "juju_topology" THEN json_dumps_topology(value.juju_topology)
             ELSE value.address ]
    [] cls = "MimirClusterProviderAppData" ->
         [ k \in {"mimir_config", "loki_endpoints"} |->
             IF k = "mimir_config" THEN json_dumps_dict(value.mimir_config)
             ELSE json_dumps_dict(value.loki_endpoints) ]

\* DatabagModel.dump into a new or a cleared databag: one entry per field
\* of the model, holding the JSON text of the field's value
dump(cls, value) ==
  CASE cls = "MimirClusterRequirerAppData" ->
         [ k \in {"roles"} |-> json_dumps_list(value.roles) ]
    [] cls = "MimirClusterRequirerUnitData" ->
         [ k \in {"juju_topology", "address"} |->
             IF k = "juju_topology" THEN json_dumps_topology(value.juju_topology)
             ELSE json_dumps_str(value.address) ]
    [] cls = "MimirClusterProviderAppData" ->
         [ k \in {"mimir_config", "loki_endpoints"} |->
             IF k = "mimir_config" THEN json_dumps_dict(value.mimir_config)
             ELSE json_dumps_dict(value.loki_endpoints) ]

\* role lists valid under the schema
ValidRolesTexts ==
  {RolesAll, RolesRead, RolesMinimal}

\* application databags a remote application can hold
AppDatabags ==
  { AppDatabagOf(t) : t \in ValidRolesTexts \cup {RolesUnknown, NotJson} }


(***************************************************************************)
(* State: the relations of the "mimir-cluster" endpoint, in the order      *)
(* self.model.relations[endpoint] lists them.  Each has                    *)
(*   app      : the remote application relation.app, None when ops cannot *)
(*              tell it,                                                   *)
(*   app_data : the remote application databag relation.data[relation.app],*)
(*   units    : the databags relation.data[unit] of the remote units, as   *)
(*              a bag: relation.units is an unordered set of units, and a  *)
(*              unit matters to the coordinator through its databag only,  *)
(*   coordinator_app      : relation.app as the worker units see it, None  *)
(*              when ops cannot tell it,                                   *)
(*   coordinator_app_data : the coordinator's application databag          *)
(*              relation.data[self.model.app], which publish_data writes   *)
(*              and the workers read.                                      *)
(* emitted holds the events the worker-side MimirClusterRequirer emitted   *)
(* in its last relation-changed hook.                                      *)
(* s3_config is the object-storage descriptor the coordinator holds (None  *)
(* without object storage) and built the outcome of the last call of       *)
(* MimirConfig.config.                                                     *)
(* alerts is remote_write_provider.alerts, the rule files by topology      *)
(* identifier in the order of the dict; nginx_container holds what the     *)
(* charm keeps in the nginx container (the mimirtool binary, the files of  *)
(* RULES_DIR, the file at ALERTS_HASH_PATH) and whether Pebble answers;    *)
(* reconciled records the Pebble calls of the last _reconcile, the alerts  *)
(* of the last mimirtool rules sync that was started, and the alerts of    *)
(* the last _set_alerts that ran to its end.                               *)
(* workload is the container of the WorkloadManager (workload.py) with its *)
(* config file, the config status, and the calls, status callbacks and     *)
(* exception of the last _update_config.                                   *)
(***************************************************************************)
RECURSIVE TotalUnits(_)
TotalUnits(rels) ==
  IF rels = <<>> THEN 0
  ELSE BagCardinality(Head(rels).units) + TotalUnits(Tail(rels))

Remove(s, i) == SubSeq(s, 1, i - 1) \o SubSeq(s, i + 1, Len(s))

\* the worker applications that can be related to the coordinator
WorkerApps == {"worker-a", "worker-b"}

\* relation.app of a relation whose remote application is not known
None == "None"

\* the application name of the coordinator
Coordinator == "mimir"

\* what reconciled records of the alerts of a sync or of a _set_alerts:
\* none yet, or these alerts
Never == [ done |-> FALSE, alerts |-> <<>> ]
Done(remote_write_alerts) == [ done |-> TRUE, alerts |-> remote_write_alerts ]

\* before the first reconcile: no alert rules, a container that is not up
\* yet, with no file of the charm in it
IdleAlerts ==
  /\ alerts = <<>>
  /\ nginx_container = [ can_connect |-> FALSE, mimirtool |-> FALSE,
                         rules |-> EmptyDict, alerts_hash |-> None ]
  /\ reconciled = [ calls |-> <<>>, synced |-> Never, completed |-> Never ]

\* before the first pebble-ready of the workload container
IdleWorkload ==
  workload = [ can_connect |-> FALSE, config_file |-> None,
               status |-> [name |-> "unknown", message |-> ""],
               rendered |-> NoneType,
               calls |-> <<>>, notified |-> <<>>, raised |-> None ]

Init ==
  /\ relations = <<>>
  /\ emitted = <<>>
  /\ s3_config = NoneType
  /\ built = NoneType
  /\ IdleAlerts
  /\ IdleWorkload

\* an application is related to the coordinator: Juju holds one relation
\* per remote application
relation_created ==
  \E app \in (WorkerApps \cup {None}) \ { relations[i].app : i \in DOMAIN relations } :
     /\ relations' = Append(relations,
                         [app |-> app, app_data |-> EmptyDatabag,
                          units |-> EmptyBag,
                          coordinator_app |-> Coordinator,
                          coordinator_app_data |-> EmptyDatabag])
     /\ UNCHANGED <<emitted, config_vars, alerts_vars, workload_vars>>

\* the relation is removed
relation_broken ==
  /\ \E i \in DOMAIN relations : relations' = Remove(relations, i)
  /\ UNCHANGED <<emitted, config_vars, alerts_vars, workload_vars>>

\* a remote unit joins the relation; its databag holds Juju's keys only
unit_joined ==
  /\ TotalUnits(relations) < MaxUnits
  /\ \E i \in DOMAIN relations :
       /\ relations[i].app # None
       /\ relations' = [relations EXCEPT
                        ![i].units = @ (+) SetToBag({JujuUnitDatabag})]
  /\ UNCHANGED <<emitted, config_vars, alerts_vars, workload_vars>>

\* a remote unit leaves the relation
unit_departed ==
  /\ \E i \in DOMAIN relations : \E unit \in BagToSet(relations[i].units) :
        relations' = [relations EXCEPT ![i].units = @ (-) SetToBag({unit})]
  /\ UNCHANGED <<emitted, config_vars, alerts_vars, workload_vars>>

\* MimirClusterRequirer.publish_unit_address on a worker unit
publish_unit_address ==
  /\ \E i \in DOMAIN relations : \E unit \in BagToSet(relations[i].units) :
       \E url \in Addresses :
          relations' = [relations EXCEPT
                          ![i].units = (@ (-) SetToBag({unit}))
                                         (+) SetToBag({UnitDatabagOf(url)})]
  /\ UNCHANGED <<emitted, config_vars, alerts_vars, workload_vars>>

\* the leader of a worker application writes the application databag
app_data_changed ==
  \E i \in DOMAIN relations : \E databag \in AppDatabags :
     /\ relations[i].app # None
     /\ relations[i].units # EmptyBag
     /\ relations' = [relations EXCEPT ![i].app_data = databag]
     /\ UNCHANGED <<emitted, config_vars, alerts_vars, workload_vars>>

DatabagAccessPermissionError == "DatabagAccessPermissionError"

\* publish_app_roles testing for leadership after the write
publish_app_roles_write_first(is_leader, relation, roles) ==
  LET written == IF relation.app # None
                 THEN AppDatabagOf(json_dumps_list(list(expand_roles(roles))))
                 ELSE relation.app_data
  IN  [ raised |-> IF is_leader THEN None ELSE DatabagAccessPermissionError,
        app_data |-> written ]

\* MimirClusterRequirer.publish_app_roles on a worker unit, by its outcome:
\* the exception it raises, if any, and the application databag it leaves
publish_app_roles(is_leader, relation, roles) ==
  IF ~is_leader
  THEN [ raised |-> DatabagAccessPermissionError, app_data |-> relation.app_data ]
  ELSE IF relation.app # None
       THEN LET deduplicated_roles == list(expand_roles(roles))
            IN  [ raised |-> None,
                  app_data |-> AppDatabagOf(json_dumps_list(deduplicated_roles)) ]
       ELSE [ raised |-> None, app_data |-> relation.app_data ]

\* a unit of a worker application publishes the roles of its application
worker_publish_app_roles ==
  /\ \E i \in DOMAIN relations : \E roles \in RoleLists : \E is_leader \in BOOLEAN :
       relations' = [relations EXCEPT
                       ![i].app_data = publish_app_roles(is_leader, relations[i], roles).app_data]
  /\ UNCHANGED <<emitted, config_vars, alerts_vars, workload_vars>>

Next ==
  \/ relation_created
  \/ relation_broken
  \/ unit_joined
  \/ unit_departed
  \/ publish_unit_address
  \/ app_data_changed

Spec == Init /\ [][Next]_vars

\* The coordinator with its worker applications related: the units of the
\* workers come and go and publish their addresses and roles.
InitWorkers ==
  /\ relations = << [app |-> "worker-a", app_data |-> EmptyDatabag,
                     units |-> EmptyBag, coordinator_app |-> Coordinator,
                     coordinator_app_data |-> EmptyDatabag],
                   [app |-> "worker-b", app_data |-> EmptyDatabag,
                     units |-> EmptyBag, coordinator_app |-> Coordinator,
                     coordinator_app_data |-> EmptyDatabag] >>
  /\ emitted = <<>>
  /\ s3_config = NoneType
  /\ built = NoneType
  /\ IdleAlerts
  /\ IdleWorkload

NextWorkers ==
  \/ unit_joined
  \/ unit_departed
  \/ publish_unit_address
  \/ worker_publish_app_roles

SpecWorkers == InitWorkers /\ [][NextWorkers]_vars

(***************************************************************************)
(* The two ends of the relation: MimirClusterProvider.publish_data on the  *)
(* coordinator and MimirClusterRequirer on the worker units (the charm     *)
(* library mimir_cluster.py).                                              *)
(***************************************************************************)
\* the documents and endpoint dicts given to publish_data
PublishedConfigs == {EmptyDict, ScaledConfig, SingleConfig}
PublishedEndpoints == {NoneType, LokiEndpoints}

\* publish_data returning after the first relation
publish_data_first_relation(rels, mimir_config, loki_endpoints) ==
  [ i \in DOMAIN rels |->
      IF i = 1
      THEN [rels[i] EXCEPT !.coordinator_app_data =
              dump("MimirClusterProviderAppData",
                   [mimir_config |-> mimir_config,
                    loki_endpoints |-> loki_endpoints])]
      ELSE rels[i] ]

\* MimirClusterProvider.publish_data: dump clears the local application
\* databag of every relation and writes both fields
publish_data(rels, mimir_config, loki_endpoints) ==
  [ i \in DOMAIN rels |->
      [rels[i] EXCEPT !.coordinator_app_data =
         dump("MimirClusterProviderAppData",
              [mimir_config |-> mimir_config,
               loki_endpoints |-> loki_endpoints])] ]

\* MimirClusterRequirer.relation: None unless the relation has its remote
\* application
IsHealthy(relation) == relation.coordinator_app # None

\* MimirClusterRequirer._get_data_from_coordinator: None without a healthy
\* relation or when the coordinator's databag does not validate
_get_data_from_coordinator(relation) ==
  IF IsHealthy(relation)
  THEN LET coordinator_databag ==
             load("MimirClusterProviderAppData", relation.coordinator_app_data)
       IN  IF coordinator_databag.ok THEN coordinator_databag ELSE NoneType
  ELSE NoneType

get_mimir_config(relation) ==
  LET data == _get_data_from_coordinator(relation)
  IN  IF data # NoneType THEN data.mimir_config ELSE EmptyDict

\* MimirClusterRequirer.is_published, on the unit whose databag is unit_data
is_published(relation, unit_data) ==
  /\ IsHealthy(relation)
  /\ load("MimirClusterRequirerUnitData", unit_data).ok
  /\ load("MimirClusterRequirerAppData", relation.app_data).ok

\* setattr(obj, name, value)
SetAttr(obj, name, value) ==
  [ attr \in DOMAIN obj \cup {name} |-> IF attr = name THEN value ELSE obj[attr] ]

\* the events of MimirClusterRequirerEvents, by their attributes
ConfigReceivedEvent(config) == [event |-> "ConfigReceivedEvent", config |-> config]
MimirClusterRemovedEvent == [event |-> "MimirClusterRemovedEvent"]

\* the handler emitting config_received for whatever get_mimir_config
\* returns, the empty dict included
_on_mimir_cluster_relation_changed_any_config(relation, unit_data) ==
  IF IsHealthy(relation)
  THEN <<ConfigReceivedEvent(get_mimir_config(relation))>>
  ELSE <<>>

\* MimirClusterRequirer._on_mimir_cluster_relation_changed on a worker
\* unit: the events it emits, in order
_on_mimir_cluster_relation_changed(relation, unit_data) ==
  IF IsHealthy(relation)
  THEN LET new_config == get_mimir_config(relation)
       IN  IF new_config # EmptyDict
           THEN <<ConfigReceivedEvent(new_config)>>
           ELSE IF is_published(relation, unit_data)
                THEN <<MimirClusterRemovedEvent>>
                ELSE <<>>
  ELSE <<>>

\* the leader of the coordinator publishes a config to its workers
coordinator_publish_data ==
  /\ \E mimir_config \in PublishedConfigs : \E loki_endpoints \in PublishedEndpoints :
        relations' = publish_data(relations, mimir_config, loki_endpoints)
  /\ UNCHANGED <<emitted, config_vars, alerts_vars, workload_vars>>

\* the relation is on its way out: the worker units no longer see the
\* remote application
relation_departing ==
  /\ \E i \in DOMAIN relations :
        /\ relations[i].coordinator_app # None
        /\ relations' = [relations EXCEPT ![i].coordinator_app = None]
  /\ UNCHANGED <<emitted, config_vars, alerts_vars, workload_vars>>

\* a worker unit runs its relation-changed hook
mimir_cluster_relation_changed ==
  /\ \E i \in DOMAIN relations : \E unit_data \in BagToSet(relations[i].units) :
        emitted' = _on_mimir_cluster_relation_changed(relations[i], unit_data)
  /\ UNCHANGED <<relations, config_vars, alerts_vars, workload_vars>>

\* ConfigReceivedEvent.snapshot: what the framework stores for the event
snapshot(self) == [config |-> json_dumps_dict(self.config)]

\* ConfigReceivedEvent.restore on the blank event the framework creates
\* for it: the decoded config is assigned to self.relation
restore(self, stored) ==
  SetAttr(self, "relation", json_loads(stored["config"]).dict)

\* the framework stores the events a hook emitted and hands their
\* observers the events it restores from the store
framework_reemit ==
  /\ \E k \in DOMAIN emitted :
        /\ emitted[k].event = "ConfigReceivedEvent"
        /\ "config" \in DOMAIN emitted[k]
        /\ emitted' = [emitted EXCEPT ![k] =
                         restore([event |-> "ConfigReceivedEvent"],
                                 snapshot(emitted[k]))]
  /\ UNCHANGED <<relations, config_vars, alerts_vars, workload_vars>>

\* Two worker applications with one unit each, related to the coordinator:
\* the units publish, the coordinator publishes its config and the units
\* run their relation-changed hooks.
InitRequirer ==
  /\ relations = << [app |-> "worker-a", app_data |-> EmptyDatabag,
                     units |-> SetToBag({JujuUnitDatabag}),
                     coordinator_app |-> Coordinator,
                     coordinator_app_data |-> EmptyDatabag],
                   [app |-> "worker-b", app_data |-> EmptyDatabag,
                     units |-> SetToBag({JujuUnitDatabag}),
                     coordinator_app |-> Coordinator,
                     coordinator_app_data |-> EmptyDatabag] >>
  /\ emitted = <<>>
  /\ s3_config = NoneType
  /\ built = NoneType
  /\ IdleAlerts
  /\ IdleWorkload

NextRequirer ==
  \/ publish_unit_address
  \/ worker_publish_app_roles
  \/ coordinator_publish_data
  \/ relation_departing
  \/ mimir_cluster_relation_changed
  \/ framework_reemit

SpecRequirer == InitRequirer /\ [][NextRequirer]_vars

(***************************************************************************)
(* MimirClusterProvider (mimir_cluster.py).  A Python dict is a function   *)
(* whose domain is the set of its keys.                                    *)
(***************************************************************************)
\* dict.get(key, default)
Get(dict, key, default) == IF key \in DOMAIN dict THEN dict[key] ELSE default

\* gather_roles counting every peer once instead of once per unit
gather_roles_step_per_peer(data, relation) ==
  IF relation.app # None
  THEN LET loaded == load("MimirClusterRequirerAppData", relation.app_data)
           worker_roles == IF loaded.ok THEN loaded.roles ELSE <<>>
           expanded == expand_roles(worker_roles)
       IN  [role \in DOMAIN data \cup expanded |->
              IF role \in expanded
              THEN Get(data, role, 0) + 1
              ELSE data[role]]
  ELSE data

\* the body of the loop of gather_roles for one relation
gather_roles_step(data, relation) ==
  IF relation.app # None
  THEN LET loaded == load("MimirClusterRequirerAppData", relation.app_data)
           worker_roles == IF loaded.ok THEN loaded.roles ELSE <<>>
           role_n == BagCardinality(relation.units)
           expanded == expand_roles(worker_roles)
       IN  [role \in DOMAIN data \cup expanded |->
              IF role \in expanded
              THEN Get(data, role, 0) + role_n
              ELSE data[role]]
  ELSE data

RECURSIVE gather_roles_loop(_, _)
gather_roles_loop(data, rels) ==
  IF rels = <<>> THEN data
  ELSE gather_roles_loop(gather_roles_step(data, Head(rels)), Tail(rels))

gather_roles(rels) == gather_roles_loop(EmptyDict, rels)

\* the try block around the whole loop over the units: one unit that does
\* not load loses the addresses of the whole peer
unit_addresses_whole_peer(relation) ==
  IF \E u \in BagToSet(relation.units) :
        ~load("MimirClusterRequirerUnitData", u).ok
  THEN {}
  ELSE { load("MimirClusterRequirerUnitData", unit).address :
           unit \in BagToSet(relation.units) }

\* the addresses of the units of a relation whose databag loads: the inner
\* loop of gather_addresses_by_role skips each unit that does not load
unit_addresses(relation) ==
  LET loaded == { load("MimirClusterRequirerUnitData", unit) :
                    unit \in BagToSet(relation.units) }
  IN  { worker_data.address : worker_data \in { l \in loaded : l.ok } }

\* the body of the loop of gather_addresses_by_role for one relation
gather_addresses_by_role_step(data, relation) ==
  IF relation.app = None THEN data
  ELSE LET loaded == load("MimirClusterRequirerAppData", relation.app_data)
       IN  IF ~loaded.ok THEN data
           ELSE LET worker_roles == Range(loaded.roles)
                    addresses == unit_addresses(relation)
                    added == IF addresses = {} THEN {} ELSE worker_roles
                IN  [role \in DOMAIN data \cup added |->
                       IF role \in added
                       THEN Get(data, role, {}) \cup addresses
                       ELSE data[role]]

RECURSIVE gather_addresses_by_role_loop(_, _)
gather_addresses_by_role_loop(data, rels) ==
  IF rels = <<>> THEN data
  ELSE gather_addresses_by_role_loop(
         gather_addresses_by_role_step(data, Head(rels)), Tail(rels))

gather_addresses_by_role(rels) == gather_addresses_by_role_loop(EmptyDict, rels)

gather_addresses(rels) ==
  LET addresses_by_role == gather_addresses_by_role(rels)
  IN  UNION { addresses_by_role[role] : role \in DOMAIN addresses_by_role }

(***************************************************************************)
(* MimirCoordinator (mimir_coordinator.py): the coherence policy over the  *)
(* roles the cluster provider gathers from the current relations.          *)
(***************************************************************************)
\* missing_roles counting a role as present only with at least one unit
missing_roles_counted ==
  LET roles == gather_roles(relations)
  IN  DOMAIN MINIMAL_DEPLOYMENT \ { r \in DOMAIN roles : roles[r] >= 1 }

\* is_recommended written like is_coherent: presence of the roles only
is_recommended_presence ==
  LET roles == DOMAIN gather_roles(relations)
  IN  DOMAIN RECOMMENDED_DEPLOYMENT \subseteq roles

is_coherent ==
  LET roles == DOMAIN gather_roles(relations)
  IN  DOMAIN MINIMAL_DEPLOYMENT \subseteq roles

missing_roles ==
  LET roles == DOMAIN gather_roles(relations)
  IN  DOMAIN MINIMAL_DEPLOYMENT \ roles

is_recommended ==
  LET roles == gather_roles(relations)
  IN  ~ \E role \in DOMAIN RECOMMENDED_DEPLOYMENT :
          Get(roles, role, 0) < RECOMMENDED_DEPLOYMENT[role]

(***************************************************************************)
(* MimirCoordinator.build_config (mimir_coordinator.py).  A config         *)
(* document is a Python dict: a function from its keys to its values.      *)
(***************************************************************************)
REPLICATION_MIN_WORKERS == 3
DEFAULT_REPLICATION == 3

root_data_dir == "/data"
recovery_data_dir == "/recovery-data"

\* str(directory / name)
PathJoin(directory, name) == directory \o "/" \o name

\* self._cluster_provider as build_config reads it: what its two queries
\* return on the current relations
MimirClusterProvider ==
  [ gather_addresses_by_role |-> gather_addresses_by_role(relations),
    gather_addresses |-> gather_addresses(relations) ]

\* len(cluster_provider.gather_addresses_by_role().get(role, []))
Scale(cluster_provider, role) ==
  Cardinality(Get(cluster_provider.gather_addresses_by_role, role, {}))

\* the replication rule with the boundary off by one: three workers are
\* not yet enough
_build_ingester_config_above_min(cluster_provider) ==
  LET ingester_scale == Scale(cluster_provider, "ingester")
  IN  [ ring |->
          [ replication_factor |->
              IF ingester_scale <= REPLICATION_MIN_WORKERS
              THEN 1 ELSE DEFAULT_REPLICATION ] ]

_build_alertmanager_config(cluster_provider) ==
  LET alertmanager_scale == Scale(cluster_provider, "alertmanager")
  IN  [ data_dir |-> PathJoin(root_data_dir, "data-alertmanager"),
        sharding_ring |->
          [ replication_factor |->
              IF alertmanager_scale < REPLICATION_MIN_WORKERS
              THEN 1 ELSE DEFAULT_REPLICATION ] ]

_build_alertmanager_storage_config ==
  [ filesystem |-> [ dir |-> PathJoin(recovery_data_dir, "data-alertmanager") ] ]

_build_compactor_config ==
  [ data_dir |-> PathJoin(root_data_dir, "data-compactor") ]

_build_ingester_config(cluster_provider) ==
  LET ingester_scale == Scale(cluster_provider, "ingester")
  IN  [ ring |->
          [ replication_factor |->
              IF ingester_scale < REPLICATION_MIN_WORKERS
              THEN 1 ELSE DEFAULT_REPLICATION ] ]

_build_ruler_config ==
  [ rule_path |-> PathJoin(root_data_dir, "data-ruler") ]

\* the replication factor following the scale below the minimum: none at
\* all without store-gateways
_build_store_gateway_config_scaled(cluster_provider) ==
  LET store_gateway_scale == Scale(cluster_provider, "store-gateway")
  IN  [ sharding_ring |->
          [ replication_factor |->
              IF store_gateway_scale < REPLICATION_MIN_WORKERS
              THEN store_gateway_scale ELSE DEFAULT_REPLICATION ] ]

_build_store_gateway_config(cluster_provider) ==
  LET store_gateway_scale == Scale(cluster_provider, "store-gateway")
  IN  [ sharding_ring |->
          [ replication_factor |->
              IF store_gateway_scale < REPLICATION_MIN_WORKERS
              THEN 1 ELSE DEFAULT_REPLICATION ] ]

_build_ruler_storage_config ==
  [ filesystem |-> [ dir |-> PathJoin(root_data_dir, "rules") ] ]

_build_blocks_storage_config ==
  [ bucket_store |-> [ sync_dir |-> PathJoin(root_data_dir, "tsdb-sync") ],
    filesystem |-> [ dir |-> PathJoin(root_data_dir, "blocks") ],
    tsdb |-> [ dir |-> PathJoin(root_data_dir, "tsdb") ] ]

\* an object-storage descriptor: an instance of _S3ConfigData, or None
NoS3ConfigData == [cls |-> "NoneType"]

S3ConfigData ==
  { [ cls |-> "_S3ConfigData", endpoint |-> "s3.com:port",
      access_key_id |-> "your_access_key",
      secret_access_key |-> "your_secret_key",
      bucket_name |-> "your_bucket", region |-> "your_region",
      insecure |-> insecure ] : insecure \in {"false", "true"} }

\* pydantic's model_dump: the dict of the fields of the instance
model_dump(s3_config_data) ==
  [ field \in DOMAIN s3_config_data \ {"cls"} |-> s3_config_data[field] ]

_build_s3_storage_config(s3_config_data) ==
  [ backend |-> "s3", s3 |-> model_dump(s3_config_data) ]

\* the filesystem entry dropped without the storage_prefix taking its place
_update_s3_storage_config_pop_only(storage_config, prefix_name) ==
  IF "filesystem" \in DOMAIN storage_config
  THEN [ key \in DOMAIN storage_config \ {"filesystem"} |-> storage_config[key] ]
  ELSE storage_config

\* storage_config.pop("filesystem"); storage_config["storage_prefix"] = prefix_name
_update_s3_storage_config(storage_config, prefix_name) ==
  IF "filesystem" \in DOMAIN storage_config
  THEN [ key \in (DOMAIN storage_config \ {"filesystem"}) \cup {"storage_prefix"} |->
           IF key = "storage_prefix" THEN prefix_name ELSE storage_config[key] ]
  ELSE storage_config

MIMIR_CERT_FILE == "/etc/mimir/server.cert"
MIMIR_KEY_FILE == "/etc/mimir/private.key"
MIMIR_CLIENT_CA_FILE == "/etc/mimir/ca.cert"

\* the TLS block with the gRPC transport left out
_build_tls_config_http_only ==
  LET tls_config == [ cert_file |-> MIMIR_CERT_FILE,
                      key_file |-> MIMIR_KEY_FILE,
                      client_ca_file |-> MIMIR_CLIENT_CA_FILE,
                      client_auth_type |-> "RequestClientCert" ]
  IN  [ http_tls_config |-> tls_config ]

_build_tls_config ==
  LET tls_config == [ cert_file |-> MIMIR_CERT_FILE,
                      key_file |-> MIMIR_KEY_FILE,
                      client_ca_file |-> MIMIR_CLIENT_CA_FILE,
                      client_auth_type |-> "RequestClientCert" ]
  IN  [ http_tls_config |-> tls_config,
        grpc_tls_config |-> tls_config ]

\* the charm of the cluster provider: the identity of the coordinator
coordinator ==
  [ model |-> [ name |-> "cos", uuid |-> "f2c1b2a6" ],
    app |-> [ name |-> "mimir" ] ]

\* join_members gathered role by role: an address serving several roles is
\* listed once per role
RECURSIVE list_per_role(_)
list_per_role(by_role) ==
  IF DOMAIN by_role = {} THEN <<>>
  ELSE LET role == CHOOSE r \in DOMAIN by_role : TRUE
       IN  list(by_role[role])
             \o list_per_role([r \in DOMAIN by_role \ {role} |-> by_role[r]])

_build_memberlist_config_per_role(cluster_provider) ==
  [ cluster_label |-> coordinator.model.name \o "_" \o coordinator.model.uuid
                        \o "_" \o coordinator.app.name,
    join_members |-> list_per_role(cluster_provider.gather_addresses_by_role) ]

_build_memberlist_config(cluster_provider) ==
  [ cluster_label |-> coordinator.model.name \o "_" \o coordinator.model.uuid
                        \o "_" \o coordinator.app.name,
    join_members |-> list(cluster_provider.gather_addresses) ]

build_config(cluster_provider, s3_config_data, tls_enabled) ==
  LET mimir_config ==
        [ common |-> EmptyDict,
          alertmanager |-> _build_alertmanager_config(cluster_provider),
          alertmanager_storage |-> _build_alertmanager_storage_config,
          compactor |-> _build_compactor_config,
          ingester |-> _build_ingester_config(cluster_provider),
          ruler |-> _build_ruler_config,
          ruler_storage |-> _build_ruler_storage_config,
          store_gateway |-> _build_store_gateway_config(cluster_provider),
          blocks_storage |-> _build_blocks_storage_config,
          memberlist |-> _build_memberlist_config(cluster_provider) ]
      with_storage ==
        IF s3_config_data # NoS3ConfigData
        THEN [ mimir_config EXCEPT
                 !.common = [ storage |-> _build_s3_storage_config(s3_config_data) ],
                 !.blocks_storage = _update_s3_storage_config(@, "blocks"),
                 !.ruler_storage = _update_s3_storage_config(@, "rules"),
                 !.alertmanager_storage = _update_s3_storage_config(@, "alerts") ]
        ELSE mimir_config
  IN  IF tls_enabled
      THEN [ key \in DOMAIN with_storage \cup {"server"} |->
               IF key = "server" THEN _build_tls_config ELSE with_storage[key] ]
      ELSE with_storage

(***************************************************************************)
(* MimirConfig (mimir_config.py): the builder the charm hands to the       *)
(* Coordinator as workers_config.  Its object-storage descriptor is a      *)
(* dict, which _build_s3_storage_config changes in place and embeds in the *)
(* document.                                                               *)
(***************************************************************************)
\* the S3 data of the unit test
s3_data_http ==
  [ endpoint |-> "s3.com:port", access_key_id |-> "your_access_key",
    secret_access_key |-> "your_secret_key", bucket_name |-> "your_bucket",
    region |-> "your_region", insecure |-> "true" ]

\* dict[key] = value
SetItem(dict, key, value) ==
  [ k \in DOMAIN dict \cup {key} |-> IF k = key THEN value ELSE dict[k] ]

\* dict.pop(key, None)
Pop(dict, key) == [ k \in DOMAIN dict \ {key} |-> dict[k] ]

\* the descriptors the s3 relation can give: plain HTTP or TLS, with or
\* without the path of a CA certificate
TlsCaPaths == {"/etc/mimir/s3-ca.crt", "/etc/mimir/s3-ca-2.crt"}

S3Descriptors ==
  { [s3_data_http EXCEPT !.insecure = insecure] : insecure \in {"true", "false"} }
  \cup { SetItem([s3_data_http EXCEPT !.insecure = insecure], "tls_ca_path", path) :
           insecure \in {"true", "false"}, path \in TlsCaPaths }

\* _build_s3_storage_config writing the http entry whether or not the
\* descriptor has a tls_ca_path
MimirConfig_build_s3_storage_config_http_always(s3_config_data) ==
  LET tls_ca_path == Get(s3_config_data, "tls_ca_path", None)
      popped == Pop(s3_config_data, "tls_ca_path")
      s3 == SetItem(popped, "http", [tls_ca_path |-> tls_ca_path])
  IN  [ returned |-> [ backend |-> "s3", s3 |-> s3 ],
        s3_config_data |-> s3 ]

\* MimirConfig._build_s3_storage_config: the dict it returns and the
\* descriptor as the call leaves it.  The descriptor loses tls_ca_path, is
\* embedded itself under "s3", and gets the http entry through that entry.
MimirConfig_build_s3_storage_config(s3_config_data) ==
  LET tls_ca_path == Get(s3_config_data, "tls_ca_path", None)
      popped == Pop(s3_config_data, "tls_ca_path")
      s3 == IF tls_ca_path # None
            THEN SetItem(popped, "http", [tls_ca_path |-> tls_ca_path])
            ELSE popped
  IN  [ returned |-> [ backend |-> "s3", s3 |-> s3 ],
        s3_config_data |-> s3 ]

\* MimirConfig.config: the document (the dict it dumps as YAML) and the
\* descriptor as the call leaves it
MimirConfig_config(cluster_provider, s3_config_data, certificates_on_disk) ==
  LET alertmanager_url == ""
      mimir_config ==
        [ build_config(cluster_provider, NoS3ConfigData, FALSE)
            EXCEPT !.ruler = SetItem(@, "alertmanager_url", alertmanager_url) ]
      s3_ready == s3_config_data # NoneType
      storage == MimirConfig_build_s3_storage_config(s3_config_data)
      with_storage ==
        IF s3_ready
        THEN [ mimir_config EXCEPT
                 !.common = [ storage |-> storage.returned ],
                 !.blocks_storage = _update_s3_storage_config(@, "blocks"),
                 !.ruler_storage = _update_s3_storage_config(@, "rules"),
                 !.alertmanager_storage = _update_s3_storage_config(@, "alerts") ]
        ELSE mimir_config
  IN  [ document |->
          IF certificates_on_disk
          THEN SetItem(with_storage, "server", _build_tls_config)
          ELSE with_storage,
        s3_config_data |-> IF s3_ready THEN storage.s3_config_data
                           ELSE s3_config_data ]

\* the s3 relation gives the coordinator a descriptor, or takes it away
s3_changed ==
  /\ \E descriptor \in S3Descriptors \cup {NoneType} :
        /\ descriptor # s3_config
        /\ s3_config' = descriptor
  /\ UNCHANGED <<cluster_vars, built, alerts_vars, workload_vars>>

\* the Coordinator calls workers_config, with the certificates on disk or
\* not; built keeps the document with the inputs it was built from
workers_config ==
  /\ \E certificates_on_disk \in BOOLEAN :
        LET outcome == MimirConfig_config(MimirClusterProvider, s3_config,
                                          certificates_on_disk)
        IN  /\ s3_config' = outcome.s3_config_data
            /\ built' = [ document |-> outcome.document,
                          s3_config_data |-> s3_config,
                          certificates_on_disk |-> certificates_on_disk ]
  /\ UNCHANGED <<cluster_vars, alerts_vars, workload_vars>>

InitConfig == InitWorkers

NextConfig ==
  \/ s3_changed
  \/ workers_config

SpecConfig == InitConfig /\ [][NextConfig]_vars

(***************************************************************************)
(* MimirCoordinatorK8SOperatorCharm (charm.py): _reconcile and _set_alerts *)
(* keep the alert rules of the remote-write clients in the nginx           *)
(* container and sync them to Mimir with mimirtool.                        *)
(***************************************************************************)
RULES_DIR == "/etc/mimir-alerts/rules"
ALERTS_HASH_PATH == "/etc/mimir-alerts/alerts.sha256"

\* rule files as the remote-write clients send them
CpuRules == [ groups |-> <<[name |-> "cpu"]>> ]
DiskRules == [ groups |-> <<[name |-> "disk"]>> ]

\* values of remote_write_provider.alerts: the rule files by topology
\* identifier, in the order of the dict
AlertSets ==
  { <<>>,
    << [topology_identifier |-> "cos_1234_prom", rules_file |-> CpuRules] >>,
    << [topology_identifier |-> "cos_1234_prom", rules_file |-> DiskRules] >>,
    << [topology_identifier |-> "cos_1234_prom", rules_file |-> CpuRules],
       [topology_identifier |-> "cos_1234_agent", rules_file |-> DiskRules] >> }

\* yaml.safe_dump of a rule file
RECURSIVE yaml_safe_dump_groups(_)
yaml_safe_dump_groups(groups) ==
  IF groups = <<>> THEN ""
  ELSE "- name: " \o Head(groups).name \o "\n"
         \o yaml_safe_dump_groups(Tail(groups))

yaml_safe_dump(rules_file) ==
  IF rules_file.groups = <<>> THEN "groups: []\n"
  ELSE "groups:\n" \o yaml_safe_dump_groups(rules_file.groups)

\* str() of a rule file and of the alerts dict
RECURSIVE str_groups(_)
str_groups(groups) ==
  IF groups = <<>> THEN ""
  ELSE "{'name': '" \o Head(groups).name \o "'}"
         \o (IF Len(groups) > 1 THEN ", " ELSE "") \o str_groups(Tail(groups))

str_rules_file(rules_file) == "{'groups': [" \o str_groups(rules_file.groups) \o "]}"

RECURSIVE str_items(_)
str_items(items) ==
  IF items = <<>> THEN ""
  ELSE "'" \o Head(items).topology_identifier \o "': "
         \o str_rules_file(Head(items).rules_file)
         \o (IF Len(items) > 1 THEN ", " ELSE "") \o str_items(Tail(items))

str(remote_write_alerts) == "{" \o str_items(remote_write_alerts) \o "}"

\* hashlib.sha256(...).hexdigest(): one digest per text
sha256(hashable) == "sha256:" \o hashable

\* the path _push_alert_rules gives the rule file of a topology
RulesPath(topology_identifier) ==
  RULES_DIR \o "/juju_" \o topology_identifier \o ".rules"

\* the files _push_alert_rules writes: path -> contents
RuleFiles(remote_write_alerts) ==
  [ path \in { RulesPath(remote_write_alerts[i].topology_identifier) :
                 i \in DOMAIN remote_write_alerts } |->
      LET i == CHOOSE j \in DOMAIN remote_write_alerts :
                 /\ RulesPath(remote_write_alerts[j].topology_identifier) = path
                 /\ \A k \in DOMAIN remote_write_alerts :
                       RulesPath(remote_write_alerts[k].topology_identifier) = path
                         => k <= j
      IN  yaml_safe_dump(remote_write_alerts[i].rules_file) ]

\* the Pebble calls of _push_alert_rules, in order
RECURSIVE PushCalls(_)
PushCalls(items) ==
  IF items = <<>> THEN <<>>
  ELSE <<"push " \o RulesPath(Head(items).topology_identifier)>>
         \o PushCalls(Tail(items))

\* the Pebble calls that can fail with an error
Faults == {"remove_path", "push_rules", "push_hash", "exec"}

PebbleError == "PebbleError"

\* _pull: the contents of the file, None when it does not exist
_pull(container, path) ==
  IF path = ALERTS_HASH_PATH THEN container.alerts_hash ELSE None

\* _ensure_mimirtool: the container with the binary, and the call made
_ensure_mimirtool(container) ==
  IF container.can_connect /\ ~container.mimirtool
  THEN [ container |-> [container EXCEPT !.mimirtool = TRUE],
         calls |-> <<"push /usr/bin/mimirtool">> ]
  ELSE [ container |-> container, calls |-> <<>> ]

\* _set_alerts, with the Pebble call that fails in it, if any: the
\* container as it leaves it, the Pebble calls it made, the exception that
\* ended it and whether the mimirtool rules sync was started
_set_alerts(container, remote_write_alerts, fault) ==
  LET ensured == _ensure_mimirtool(container)
      alerts_hash == sha256(str(remote_write_alerts))
      alert_rules_changed == alerts_hash # _pull(ensured.container, ALERTS_HASH_PATH)
      removed == [ensured.container EXCEPT !.rules = EmptyDict]
      pushed == [removed EXCEPT !.rules = RuleFiles(remote_write_alerts)]
      hashed == [pushed EXCEPT !.alerts_hash = alerts_hash]
      remove_call == <<"remove_path " \o RULES_DIR>>
      push_calls == PushCalls(remote_write_alerts)
      hash_call == <<"push " \o ALERTS_HASH_PATH>>
  IN  IF ~alert_rules_changed
      THEN [ container |-> ensured.container, calls |-> ensured.calls,
             raised |-> None, synced |-> FALSE ]
      ELSE IF fault = "remove_path"
      THEN [ container |-> ensured.container, calls |-> ensured.calls,
             raised |-> PebbleError, synced |-> FALSE ]
      ELSE IF fault = "push_rules" /\ remote_write_alerts # <<>>
      THEN [ container |-> removed, calls |-> ensured.calls \o remove_call,
             raised |-> PebbleError, synced |-> FALSE ]
      ELSE IF fault = "push_hash"
      THEN [ container |-> pushed,
             calls |-> ensured.calls \o remove_call \o push_calls,
             raised |-> PebbleError, synced |-> FALSE ]
      ELSE IF fault = "exec"
      THEN [ container |-> hashed,
             calls |-> ensured.calls \o remove_call \o push_calls \o hash_call,
             raised |-> PebbleError, synced |-> FALSE ]
      ELSE [ container |-> hashed,
             calls |-> ensured.calls \o remove_call \o push_calls \o hash_call
                         \o <<"exec mimirtool rules sync">>,
             raised |-> None, synced |-> TRUE ]

\* _reconcile, run by every hook: _set_alerts when Pebble answers, then
\* _ensure_mimirtool (the updates of the other relations follow)
reconcile ==
  /\ \E fault \in Faults \cup {None} :
        IF nginx_container.can_connect
        THEN LET outcome == _set_alerts(nginx_container, alerts, fault)
             IN  /\ nginx_container' = outcome.container
                 /\ reconciled' =
                      [ calls |-> outcome.calls,
                        synced |-> IF outcome.synced THEN Done(alerts)
                                   ELSE reconciled.synced,
                        completed |-> IF outcome.raised = None THEN Done(alerts)
                                      ELSE reconciled.completed ]
        ELSE /\ nginx_container' = nginx_container
             /\ reconciled' = [reconciled EXCEPT !.calls = <<>>]
  /\ UNCHANGED <<cluster_vars, config_vars, alerts, workload_vars>>

\* the remote-write clients change their alert rules
alerts_changed ==
  /\ \E remote_write_alerts \in AlertSets \ {alerts} :
        alerts' = remote_write_alerts
  /\ UNCHANGED <<cluster_vars, config_vars, nginx_container, reconciled,
                 workload_vars>>

\* Pebble in the nginx container starts or stops answering
pebble_changed ==
  /\ nginx_container' = [nginx_container EXCEPT !.can_connect = ~@]
  /\ UNCHANGED <<cluster_vars, config_vars, alerts, reconciled, workload_vars>>

InitAlerts == Init

NextAlerts ==
  \/ reconcile
  \/ alerts_changed
  \/ pebble_changed

SpecAlerts == InitAlerts /\ [][NextAlerts]_vars

(***************************************************************************)
(* WorkloadManager (workload.py): _update_config renders the config of the *)
(* workload and writes it to CONFIG_PATH in the workload container; Status *)
(* hands every status it is given to the status_changed_callback.          *)
(*                                                                         *)
(* workload: whether Pebble in the container answers, the text of the file *)
(* at CONFIG_PATH (None: no file), status.config, and of the last          *)
(* _update_config: the config it rendered, the calls it made, the statuses *)
(* the callback got and the exception that ended it.                       *)
(***************************************************************************)
CONFIG_PATH == "/etc/grafana-agent.yaml"

UnknownStatus == [ name |-> "unknown", message |-> "" ]
ActiveStatus == [ name |-> "active", message |-> "" ]
WaitingStatus(message) == [ name |-> "waiting", message |-> message ]

\* values of _render_config()
Configs == { [log_level |-> "info"], [log_level |-> "debug"],
             [log_level |-> "warn"], [log_level |-> "error"] }

\* yaml.dump of a config
yaml_dump(config) == "log_level: " \o config.log_level \o "\n"

ParserError == "ParserError"
PathError == "PathError"
APIError == "APIError"
ConnectionError == "ConnectionError"

\* yaml.safe_load of a text: the document, None for an empty text, or the
\* exception of a text that is no YAML
yaml_safe_load(text) ==
  IF text = "" THEN [ returned |-> NoneType, raised |-> None ]
  ELSE IF \E config \in Configs : yaml_dump(config) = text
  THEN [ returned |-> CHOOSE config \in Configs : yaml_dump(config) = text,
         raised |-> None ]
  ELSE [ returned |-> NoneType, raised |-> ParserError ]

\* is_ready(): whether Pebble in the workload container answers
is_ready(self) == self.can_connect

\* the truth value of self.is_ready, the bound method that _update_config
\* tests without calling it: a method object is always true
bool_is_ready(self) == TRUE

\* read_file: the text that container.pull gives, or the exception it
\* raises: ConnectionError when Pebble does not answer, PathError when
\* there is no such file
read_file(self, filepath) ==
  IF ~self.can_connect THEN [ returned |-> "", raised |-> ConnectionError ]
  ELSE IF filepath # CONFIG_PATH \/ self.config_file = None
  THEN [ returned |-> "", raised |-> PathError ]
  ELSE [ returned |-> self.config_file, raised |-> None ]

\* write_file: container.push, which raises the fault if there is one and
\* a ConnectionError when Pebble does not answer
write_file(self, path, text, fault) ==
  IF ~self.can_connect THEN [ self |-> self, raised |-> ConnectionError ]
  ELSE IF fault # None THEN [ self |-> self, raised |-> fault ]
  ELSE [ self |-> [self EXCEPT !.config_file = text], raised |-> None ]

\* Status.config = value: the status is kept and handed to the callback
Status_config(self, value) ==
  [self EXCEPT !.status = value, !.notified = Append(@, value)]

\* _update_config with the config that _render_config returns and the
\* fault of the push, if any
_update_config(self, config, fault) ==
  LET started == [self EXCEPT !.rendered = NoneType, !.calls = <<>>,
                               !.notified = <<>>, !.raised = None]
  IN  IF ~bool_is_ready(started)
      THEN Status_config(started, WaitingStatus("Workload is not yet available"))
      ELSE
        LET rendering == [started EXCEPT !.rendered = config,
                                         !.calls = <<"_render_config">>]
            pulled == read_file(rendering, CONFIG_PATH)
            reading == [rendering EXCEPT !.calls = Append(@, "read_file")]
            loaded == IF pulled.raised = None
                      THEN yaml_safe_load(pulled.returned)
                      ELSE [ returned |-> NoneType, raised |-> pulled.raised ]
            old_config == IF loaded.raised \in {PathError, ParserError}
                          THEN NoneType ELSE loaded.returned
            pushed == write_file(reading, CONFIG_PATH, yaml_dump(config), fault)
            writing == [pushed.self EXCEPT !.calls = Append(@, "write_file")]
        IN  IF loaded.raised \notin {None, PathError, ParserError}
            THEN [reading EXCEPT !.raised = loaded.raised]
            ELSE IF config = old_config
            THEN Status_config(reading, ActiveStatus)
            ELSE IF pushed.raised = APIError
            THEN Status_config(writing, WaitingStatus(APIError))
            ELSE IF pushed.raised # None
            THEN [writing EXCEPT !.raised = pushed.raised]
            ELSE Status_config(writing, ActiveStatus)

\* _update_config runs (pebble-ready of the workload container)
update_config ==
  /\ \E config \in Configs, fault \in {None, APIError} :
        workload' = _update_config(workload, config, fault)
  /\ UNCHANGED <<cluster_vars, config_vars, alerts_vars>>

\* Pebble in the workload container starts or stops answering
workload_pebble_changed ==
  /\ workload' = [workload EXCEPT !.can_connect = ~@]
  /\ UNCHANGED <<cluster_vars, config_vars, alerts_vars>>

\* the workload container is replaced: its files are gone and Pebble does
\* not answer yet
workload_replaced ==
  /\ workload.config_file # None
  /\ workload' = [workload EXCEPT !.can_connect = FALSE, !.config_file = None]
  /\ UNCHANGED <<cluster_vars, config_vars, alerts_vars>>

InitWorkload == Init

NextWorkload ==
  \/ update_config
  \/ workload_pebble_changed
  \/ workload_replaced

SpecWorkload == InitWorkload /\ [][NextWorkload]_vars

(***************************************************************************)
(* Vocabulary of the properties.                                           *)
(***************************************************************************)
MetaRoles == DOMAIN META_ROLES

\* the number of units gather_roles reports for a role, absent counting 0
Count(r) == Get(gather_roles(relations), r, 0)

\* the addresses gather_addresses_by_role reports for a role
AddressesOf(r) == Get(gather_addresses_by_role(relations), r, {})

\* the roles a relation advertises, when its application record decodes
Decodes(relation) ==
  relation.app # None /\ load("MimirClusterRequirerAppData", relation.app_data).ok

\* the application databag of the relation is not a JSON-encoded list of
\* MimirRole values under the key "roles": it is empty, not JSON, or lists
\* a token outside the vocabulary
MalformedAppData(relation) ==
  /\ relation.app # None
  /\ relation.app_data \notin { AppDatabagOf(t) : t \in ValidRolesTexts }

RolesOf(relation) ==
  Range(load("MimirClusterRequirerAppData", relation.app_data).roles)

\* the addresses the units of a relation have published
Published(relation) ==
  { a \in Addresses : UnitDatabagOf(a) \in BagToSet(relation.units) }

\* a unit of the relation holds a databag that is not a published address
HasMalformedUnit(relation) ==
  \E u \in BagToSet(relation.units) : u \notin { UnitDatabagOf(a) : a \in Addresses }

\* the peers of the cluster: for every relation its position, the roles its
\* application record advertises (none when the record does not decode),
\* these roles expanded, its number of units and its published addresses
Peers ==
  { LET relation == relations[i]
        loaded == load("MimirClusterRequirerAppData", relation.app_data)
        decodes == relation.app # None /\ loaded.ok
    IN  [ index |-> i,
          decodes |-> decodes,
          roles |-> IF decodes THEN Range(loaded.roles) ELSE {},
          expanded |-> IF decodes THEN expand_roles(loaded.roles) ELSE {},
          units |-> BagCardinality(relation.units),
          published |-> Published(relation) ]
    : i \in DOMAIN relations }

RECURSIVE SumUnits(_)
SumUnits(peers) ==
  IF peers = {} THEN 0
  ELSE LET p == CHOOSE q \in peers : TRUE
       IN  p.units + SumUnits(peers \ {p})

(***************************************************************************)
(* Properties.                                                             *)
(***************************************************************************)

\* C1: is_coherent() is true if and only if every role of MINIMAL_DEPLOYMENT
\* has a count of at least 1 in the map gather_roles returns; a minimal role
\* with count 0 counts as not covered.
C1_CoherentIffEveryMinimalRoleCounted ==
  is_coherent <=> \A r \in DOMAIN MINIMAL_DEPLOYMENT : Count(r) >= 1

\* C2: missing_roles() is empty if and only if is_coherent() is true, and it
\* is a subset of MINIMAL_DEPLOYMENT holding no role present with count >= 1.
C2_MissingRolesMatchCoherence ==
  /\ (missing_roles = {}) <=> is_coherent
  /\ missing_roles \subseteq DOMAIN MINIMAL_DEPLOYMENT
  /\ LET roles == gather_roles(relations)
     IN  \A r \in missing_roles : ~(Get(roles, r, 0) >= 1)

\* C2 witness: an incoherent deployment in which some minimal roles are
\* covered by units and others are missing.
C2_Witness ==
  /\ missing_roles # {}
  /\ \E r \in DOMAIN MINIMAL_DEPLOYMENT : Count(r) >= 1

\* C3: is_recommended() is a boolean, true if and only if every (role, min)
\* entry of RECOMMENDED_DEPLOYMENT has count(role) >= min, absent roles
\* counting 0.
C3_RecommendedIffEveryMinimumMet ==
  LET roles == gather_roles(relations)
  IN  /\ is_recommended \in BOOLEAN
      /\ is_recommended <=>
           \A role \in DOMAIN RECOMMENDED_DEPLOYMENT :
              Get(roles, role, 0) >= RECOMMENDED_DEPLOYMENT[role]

\* C3 witness: a recommended deployment (three ingesters, two queriers, ...).
C3_Witness == is_recommended /\ Count("ingester") = 3

\* C4: with the shipped tables every recommended deployment is coherent, and
\* a deployment with exactly one unit of every minimal role is coherent but
\* not recommended.
C4_RecommendedStrongerThanCoherent ==
  LET roles == gather_roles(relations)
  IN  /\ is_recommended => is_coherent
      /\ (\A r \in DOMAIN MINIMAL_DEPLOYMENT : Get(roles, r, 0) = 1)
            => (is_coherent /\ ~is_recommended)

\* C4 witness: gather_roles returns exactly the minimal table, one unit per
\* minimal role.
C4_Witness == gather_roles(relations) = MINIMAL_DEPLOYMENT

C7_MalformedUnitIsolated ==
  LET addresses_by_role == gather_addresses_by_role(relations)
      peers == Peers
  IN  \A role \in MimirRole :
         Get(addresses_by_role, role, {}) =
           UNION { p.published : p \in { q \in peers : role \in q.roles } }

\* C7 witness: a peer with a malformed unit and a unit with a published
\* address, filed under the peer's role.
C7_Witness ==
  \E i \in DOMAIN relations :
     /\ Decodes(relations[i])
     /\ HasMalformedUnit(relations[i])
     /\ \E role \in RolesOf(relations[i]) :
           /\ Published(relations[i]) # {}
           /\ AddressesOf(role) = Published(relations[i])

\* C8: no meta-role (read, write, backend, all) is a key of the map of
\* gather_roles or of gather_addresses_by_role, and expand_roles returns no
\* meta-role.
C8_NoMetaRoleInClusterView ==
  /\ DOMAIN gather_roles(relations) \cap MetaRoles = {}
  /\ DOMAIN gather_addresses_by_role(relations) \cap MetaRoles = {}
  /\ \A i \in DOMAIN relations :
        Decodes(relations[i]) =>
          expand_roles(load("MimirClusterRequirerAppData",
                            relations[i].app_data).roles) \cap MetaRoles = {}

\* C9: for every peer that advertises a meta-role, each published unit
\* address is filed under every atomic role the meta-role expands to, and
\* the units are counted under these roles.
C9_MetaRoleAddressesUnderAtomicRoles ==
  \A i \in DOMAIN relations :
     Decodes(relations[i]) =>
       \A m \in RolesOf(relations[i]) \cap MetaRoles :
          \A r \in META_ROLES[m] \ MetaRoles :
             /\ Count(r) >= BagCardinality(relations[i].units)
             /\ Published(relations[i]) \subseteq AddressesOf(r)

\* C10: gather_addresses returns exactly the addresses published in unit
\* databags that load, whatever the roles or the application databag of the
\* unit's peer, and this is the union of the address sets of
\* gather_addresses_by_role.
C10_AllPublishedAddressesGathered ==
  /\ gather_addresses(relations)
       = UNION { Published(relations[i]) : i \in DOMAIN relations }
  /\ gather_addresses(relations)
       = UNION { AddressesOf(r) : r \in MimirRole }

\* the inputs of build_config: an object-storage descriptor or None, and
\* the TLS flag
S3Inputs == S3ConfigData \cup {NoS3ConfigData}

\* the replication factor the claim gives a role with these addresses
FactorFor(addresses) == IF Cardinality(addresses) < 3 THEN 1 ELSE 3

\* C11: in every built config the replication factor of the alertmanager
\* sharding ring, of the ingester ring and of the store-gateway sharding
\* ring is 1 when the subsystem's own role has fewer than three distinct
\* addresses and 3 otherwise; it is a function of that role's address set
\* alone, whatever the addresses of the other roles and the other inputs.
C11_ReplicationFollowsOwnRole ==
  LET cluster_provider == MimirClusterProvider
      by_role == cluster_provider.gather_addresses_by_role
  IN  \A s3 \in S3Inputs : \A tls \in BOOLEAN :
         LET config == build_config(cluster_provider, s3, tls)
         IN  /\ config.alertmanager.sharding_ring.replication_factor
                  = FactorFor(Get(by_role, "alertmanager", {}))
             /\ config.ingester.ring.replication_factor
                  = FactorFor(Get(by_role, "ingester", {}))
             /\ config.store_gateway.sharding_ring.replication_factor
                  = FactorFor(Get(by_role, "store-gateway", {}))

\* the ingesters have three addresses and replicate, while the
\* alertmanagers and the store-gateways have two and do not
C11_Witness ==
  LET by_role == gather_addresses_by_role(relations)
      config == build_config(MimirClusterProvider, NoS3ConfigData, FALSE)
  IN  /\ Cardinality(Get(by_role, "ingester", {})) = 3
      /\ Cardinality(Get(by_role, "alertmanager", {})) = 2
      /\ Cardinality(Get(by_role, "store-gateway", {})) = 2
      /\ config.ingester.ring.replication_factor = 3
      /\ config.alertmanager.sharding_ring.replication_factor = 1
      /\ config.store_gateway.sharding_ring.replication_factor = 1

\* the three storage-backed blocks of a config, with the prefix each takes
\* under object storage and the directory it keeps without
StorageBlocks ==
  { [ block |-> "blocks_storage", prefix |-> "blocks", dir |-> "/data/blocks" ],
    [ block |-> "ruler_storage", prefix |-> "rules", dir |-> "/data/rules" ],
    [ block |-> "alertmanager_storage", prefix |-> "alerts",
      dir |-> "/recovery-data/data-alertmanager" ] }

\* C12: in every built config the storage switchover is all or nothing.
\* With an object-storage descriptor, common.storage is the s3 block of the
\* descriptor and blocks_storage, ruler_storage and alertmanager_storage
\* each carry their storage_prefix (blocks, rules, alerts) and no
\* filesystem entry; without one, common has no storage key and the three
\* blocks keep their filesystem.dir and have no storage_prefix.
C12_StorageSwitchoverAllOrNothing ==
  LET cluster_provider == MimirClusterProvider
  IN  \A s3 \in S3Inputs : \A tls \in BOOLEAN :
         LET config == build_config(cluster_provider, s3, tls)
         IN  IF s3 \in S3ConfigData
             THEN /\ DOMAIN config.common = {"storage"}
                  /\ config.common.storage.backend = "s3"
                  /\ config.common.storage.s3.endpoint = s3.endpoint
                  /\ config.common.storage.s3.bucket_name = s3.bucket_name
                  /\ config.common.storage.s3.insecure = s3.insecure
                  /\ \A b \in StorageBlocks :
                        /\ "filesystem" \notin DOMAIN config[b.block]
                        /\ "storage_prefix" \in DOMAIN config[b.block]
                        /\ config[b.block].storage_prefix = b.prefix
             ELSE /\ "storage" \notin DOMAIN config.common
                  /\ \A b \in StorageBlocks :
                        /\ "storage_prefix" \notin DOMAIN config[b.block]
                        /\ "filesystem" \in DOMAIN config[b.block]
                        /\ config[b.block].filesystem.dir = b.dir

\* a config built for a cluster with published workers and object storage
C12_Witness ==
  /\ gather_addresses(relations) # {}
  /\ \E s3 \in S3ConfigData :
        LET config == build_config(MimirClusterProvider, s3, FALSE)
        IN  /\ "storage" \in DOMAIN config.common
            /\ config.blocks_storage.storage_prefix = "blocks"
            /\ config.ruler_storage.storage_prefix = "rules"
            /\ config.alertmanager_storage.storage_prefix = "alerts"

\* C13: in every built config memberlist.join_members lists each address
\* of gather_addresses() exactly once and nothing else, also when several
\* units or roles share an address, and memberlist.cluster_label is
\* <model name>_<model uuid>_<application name> of the coordinator.
C13_JoinMembersAreTheAddressesOnce ==
  LET cluster_provider == MimirClusterProvider
      addresses == gather_addresses(relations)
  IN  \A s3 \in S3Inputs : \A tls \in BOOLEAN :
         LET memberlist == build_config(cluster_provider, s3, tls).memberlist
         IN  /\ Range(memberlist.join_members) = addresses
             /\ Len(memberlist.join_members) = Cardinality(addresses)
             /\ memberlist.cluster_label = "cos_f2c1b2a6_mimir"

\* three units serve several roles each and two of them share an address:
\* join_members has two entries
C13_Witness ==
  /\ TotalUnits(relations) = 3
  /\ \A i \in DOMAIN relations :
        Decodes(relations[i]) /\ ~HasMalformedUnit(relations[i])
  /\ Cardinality(gather_addresses(relations)) = 2
  /\ \E a \in Addresses :
        Cardinality({ r \in MimirRole : a \in AddressesOf(r) }) > 1
  /\ Len(build_config(MimirClusterProvider, NoS3ConfigData, FALSE)
            .memberlist.join_members) = 2

SameDescriptorAsLastBuild ==
  \/ s3_config = built.s3_config_data
  \/ /\ built.s3_config_data # NoneType
     /\ s3_config
          = MimirConfig_build_s3_storage_config(built.s3_config_data).s3_config_data

\* C15: two consecutive builds with the same cluster view, the same storage
\* descriptor and the same TLS flag return equal documents: a call of
\* workers_config that follows a build with these inputs yields the
\* document of that build, field for field.
C15_ConsecutiveBuildsAgree ==
  [][ ( /\ workers_config
        /\ built # NoneType
        /\ SameDescriptorAsLastBuild
        /\ built'.certificates_on_disk = built.certificates_on_disk )
      => built'.document = built.document ]_vars

\* the last build was given the descriptor an earlier build had already
\* changed, and the coordinator still holds it
C15_Witness ==
  /\ built # NoneType
  /\ "http" \in DOMAIN built.s3_config_data
  /\ s3_config = built.s3_config_data
  /\ "http" \in DOMAIN built.document.common.storage.s3

\* C16: with no peers at all and no storage descriptor the config is built:
\* it has every section, the alertmanager, ingester and store-gateway
\* replication factors are 1, blocks_storage has its filesystem.dir and
\* memberlist.join_members is the empty list.
C16_EmptyViewBuilds ==
  TotalUnits(relations) = 0 =>
    \A tls \in BOOLEAN :
       LET config == build_config(MimirClusterProvider, NoS3ConfigData, tls)
       IN  /\ { "common", "alertmanager", "alertmanager_storage", "compactor",
                "ingester", "ruler", "ruler_storage", "store_gateway",
                "blocks_storage", "memberlist" } \subseteq DOMAIN config
           /\ config.alertmanager.sharding_ring.replication_factor = 1
           /\ config.ingester.ring.replication_factor = 1
           /\ config.store_gateway.sharding_ring.replication_factor = 1
           /\ config.blocks_storage.filesystem.dir = "/data/blocks"
           /\ config.memberlist.join_members = <<>>

\* the coordinator without any relation builds a config
C16_Witness ==
  /\ relations = <<>>
  /\ build_config(MimirClusterProvider, NoS3ConfigData, FALSE)
       .memberlist.join_members = <<>>

\* valid values of the three databag models
RequirerAppDataValues ==
  { [roles |-> roles] : roles \in PublishedRoleLists \cup {<<"all">>, <<"read">>} }

RequirerUnitDataValues ==
  { [juju_topology |-> Topology, address |-> address] : address \in Addresses }

ProviderAppDataValues ==
  { [mimir_config |-> config, loki_endpoints |-> endpoints] :
      config \in {ScaledConfig, SingleConfig},
      endpoints \in {NoneType, LokiEndpoints} }

ValuesOf(cls) ==
  CASE cls = "MimirClusterRequirerAppData" -> RequirerAppDataValues
    [] cls = "MimirClusterRequirerUnitData" -> RequirerUnitDataValues
    [] cls = "MimirClusterProviderAppData" -> ProviderAppDataValues

DatabagModels ==
  { "MimirClusterRequirerAppData", "MimirClusterRequirerUnitData",
    "MimirClusterProviderAppData" }

\* the fields of the record load returned are those of the value
SameRecord(loaded, value) ==
  /\ "ok" \in DOMAIN loaded
  /\ loaded.ok
  /\ DOMAIN loaded = DOMAIN value \cup {"ok"}
  /\ \A field \in DOMAIN value : loaded[field] = value[field]

\* the law of the codec over the valid values of every databag model
RoundTripLaw ==
  \A cls \in DatabagModels : \A value \in ValuesOf(cls) :
     SameRecord(load(cls, dump(cls, value)), value)

BrokenDatabagsOf(cls) ==
  LET dumped == { dump(cls, value) : value \in ValuesOf(cls) }
  IN  UNION { { [databag EXCEPT ![key] = NotJson] : key \in DOMAIN databag }
              \cup { [k \in DOMAIN databag \ {key} |-> databag[k]] :
                       key \in DOMAIN databag \ {"loki_endpoints"} }
              \cup { [databag EXCEPT ![key] = "\"a1\""] :
                       key \in DOMAIN databag \ {"address"} }
              : databag \in dumped }

\* the fields of a databag model and the values each admits
FullyValidated(cls, record) ==
  CASE cls = "MimirClusterRequirerAppData" ->
         /\ DOMAIN record = {"ok", "roles"}
         /\ Range(record.roles) \subseteq MimirRole
    [] cls = "MimirClusterRequirerUnitData" ->
         /\ DOMAIN record = {"ok", "juju_topology", "address"}
         /\ DOMAIN record.juju_topology = {"model", "unit"}
         /\ record.address \in Addresses
    [] cls = "MimirClusterProviderAppData" ->
         /\ DOMAIN record = {"ok", "mimir_config", "loki_endpoints"}
         /\ record.mimir_config \in {ScaledConfig, SingleConfig}
         /\ record.loki_endpoints \in {NoneType, LokiEndpoints}

\* load returned a fully validated record or raised DataValidationError
LoadsOrRejects(cls, databag) ==
  LET loaded == load(cls, databag)
  IN  \/ loaded = DataValidationError
      \/ /\ "ok" \in DOMAIN loaded
         /\ loaded.ok
         /\ FullyValidated(cls, loaded)

\* every broken databag is rejected and every dumped value loads whole
BrokenDatabagsRejected ==
  \A cls \in DatabagModels :
     /\ \A databag \in BrokenDatabagsOf(cls) :
           load(cls, databag) = DataValidationError
     /\ \A value \in ValuesOf(cls) : LoadsOrRejects(cls, dump(cls, value))

\* C18: load either returns a fully validated record or raises
\* DataValidationError: for every databag of the cluster and for every
\* databag with a value that is not JSON, a missing field or a field of the
\* wrong type, it never yields a partial record nor another exception, and
\* it rejects each of these broken databags.
C18_LoadValidatesOrRaises ==
  /\ BrokenDatabagsRejected
  /\ \A i \in DOMAIN relations :
        /\ LoadsOrRejects("MimirClusterRequirerAppData", relations[i].app_data)
        /\ \A unit \in BagToSet(relations[i].units) :
              LoadsOrRejects("MimirClusterRequirerUnitData", unit)

\* the cluster holds a unit databag that loads and one that is rejected,
\* and an application databag that is rejected
C18_Witness ==
  /\ \E i \in DOMAIN relations : \E unit \in BagToSet(relations[i].units) :
        load("MimirClusterRequirerUnitData", unit).ok
  /\ \E i \in DOMAIN relations : \E unit \in BagToSet(relations[i].units) :
        load("MimirClusterRequirerUnitData", unit) = DataValidationError
  /\ \E i \in DOMAIN relations :
        /\ relations[i].app_data = AppDatabagOf(NotJson)
        /\ load("MimirClusterRequirerAppData", relations[i].app_data)
             = DataValidationError

\* what Juju adds to a databag: its own keys, with values that are not JSON
JujuEntries ==
  [ k \in {"ingress-address", "private-address", "egress-subnets"} |->
      CASE k = "ingress-address" -> "10.0.0.1"
        [] k = "private-address" -> "10.0.0.2"
        [] k = "egress-subnets" -> "10.0.0.1/32" ]

\* the databag with some of Juju's keys added
WithJujuKeys(databag, keys) ==
  [ k \in DOMAIN databag \cup keys |->
      IF k \in keys THEN JujuEntries[k] ELSE databag[k] ]

JujuKeySets == SUBSET DOMAIN JujuEntries \ {{}}

BuiltinKeysIgnored ==
  \A cls \in DatabagModels : \A value \in ValuesOf(cls) :
     \A keys \in JujuKeySets :
        /\ load(cls, WithJujuKeys(dump(cls, value), keys))
             = load(cls, dump(cls, value))
        /\ load(cls, WithJujuKeys(dump(cls, value), keys)).ok

\* C19: load ignores ingress-address, private-address and egress-subnets:
\* a databag that is valid apart from these keys loads to the same record
\* as without them, also when their values are not JSON; this holds of
\* every dumped value and of every databag of the cluster.
C19_BuiltinJujuKeysIgnored ==
  /\ BuiltinKeysIgnored
  /\ \A i \in DOMAIN relations : \A keys \in JujuKeySets :
        /\ load("MimirClusterRequirerAppData",
                 WithJujuKeys(relations[i].app_data, keys))
             = load("MimirClusterRequirerAppData", relations[i].app_data)
        /\ \A unit \in BagToSet(relations[i].units) :
              load("MimirClusterRequirerUnitData", WithJujuKeys(unit, keys))
                = load("MimirClusterRequirerUnitData", unit)

\* a published unit databag that also holds all of Juju's keys loads to the
\* address of the unit
C19_Witness ==
  \E i \in DOMAIN relations : \E address \in Published(relations[i]) :
     LET databag == WithJujuKeys(UnitDatabagOf(address), DOMAIN JujuEntries)
     IN  /\ "egress-subnets" \in DOMAIN databag
         /\ json_loads(databag["egress-subnets"]) = JSONDecodeError
         /\ load("MimirClusterRequirerUnitData", databag).ok
         /\ load("MimirClusterRequirerUnitData", databag).address = address

\* C20: publish_app_roles on a unit that is not the leader raises
\* DatabagAccessPermissionError and leaves the application databag as it
\* was, whatever roles it is given and whatever the databag holds.
C20_FollowerCannotPublishRoles ==
  \A i \in DOMAIN relations : \A roles \in RoleLists :
     LET outcome == publish_app_roles(FALSE, relations[i], roles)
     IN  /\ outcome.raised = DatabagAccessPermissionError
         /\ outcome.app_data = relations[i].app_data

\* the leader has published roles; a follower that publishes other roles
\* gets the error and the databag keeps the leader's roles
C20_Witness ==
  \E i \in DOMAIN relations :
     /\ relations[i].app_data
          = publish_app_roles(TRUE, relations[i], <<"write">>).app_data
     /\ publish_app_roles(FALSE, relations[i], <<"alertmanager">>).raised
          = DatabagAccessPermissionError
     /\ publish_app_roles(FALSE, relations[i], <<"alertmanager">>).app_data
          = relations[i].app_data
     /\ publish_app_roles(TRUE, relations[i], <<"alertmanager">>).app_data
          # relations[i].app_data

\* the roles that are not keys of META_ROLES
AtomicRoles == MimirRole \ DOMAIN META_ROLES

\* expanding twice is expanding once, for every set of roles and
\* meta-roles, and a set of atomic roles is its own expansion
ExpansionLaw ==
  \A S \in SUBSET MimirRole :
     LET once == expand_roles(list(S))
     IN  /\ expand_roles(list(once)) = once
         /\ S \subseteq AtomicRoles => once = S

\* C21: expand_roles is idempotent: expand_roles(expand_roles(S)) is
\* expand_roles(S) for every set S of roles and meta-roles, a set of atomic
\* roles expands to itself, and the same holds of the role list of every
\* application record the coordinator loads from its relations.
C21_ExpandRolesIdempotent ==
  /\ ExpansionLaw
  /\ \A i \in DOMAIN relations :
        Decodes(relations[i]) =>
           LET once == expand_roles(
                         load("MimirClusterRequirerAppData",
                              relations[i].app_data).roles)
           IN  /\ expand_roles(list(once)) = once
               /\ RolesOf(relations[i]) \subseteq AtomicRoles
                    => once = RolesOf(relations[i])

\* one worker advertises the meta-role all, another a list of atomic roles,
\* and both have units, so gather_roles expanded both lists
C21_Witness ==
  /\ \E i \in DOMAIN relations :
        /\ Decodes(relations[i])
        /\ RolesOf(relations[i]) = {"all"}
        /\ BagCardinality(relations[i].units) > 0
  /\ \E i \in DOMAIN relations :
        /\ Decodes(relations[i])
        /\ RolesOf(relations[i]) \subseteq AtomicRoles
        /\ BagCardinality(relations[i].units) > 0
  /\ Count("all") > 0

HasUnknownRole(relation) ==
  /\ relation.app # None
  /\ "roles" \in DOMAIN relation.app_data
  /\ LET decoded == json_loads(relation.app_data["roles"])
     IN  /\ decoded # JSONDecodeError
         /\ decoded.type = "array"
         /\ \E k \in DOMAIN decoded.items : decoded.items[k] \notin MimirRole

\* the valid roles such a list names next to the unknown one
ValidRolesNextToUnknown(relation) ==
  Range(json_loads(relation.app_data["roles"]).items) \cap MimirRole

\* C23: a peer whose role list holds a token outside MimirRole is rejected
\* as a whole: its application record does not load, on its own it gives
\* empty role counts and empty address maps, and every valid role it lists
\* next to the unknown one is counted and has addresses only from the other
\* peers; the aggregation returns its maps (it does not raise).
C23_UnknownRoleRejectsWholePeer ==
  \A i \in DOMAIN relations :
     HasUnknownRole(relations[i]) =>
        /\ load("MimirClusterRequirerAppData", relations[i].app_data)
             = DataValidationError
        /\ gather_roles(<<relations[i]>>) = EmptyDict
        /\ gather_addresses_by_role(<<relations[i]>>) = EmptyDict
        /\ gather_addresses(<<relations[i]>>) = {}
        /\ \A role \in ValidRolesNextToUnknown(relations[i]) :
              /\ Count(role) = Get(gather_roles(Remove(relations, i)), role, 0)
              /\ AddressesOf(role)
                   = Get(gather_addresses_by_role(Remove(relations, i)), role, {})

\* a peer lists querier next to an unknown token and has a unit with a
\* published address; no other peer has units, so querier is not counted
\* and has no address
C23_Witness ==
  \E i \in DOMAIN relations :
     /\ HasUnknownRole(relations[i])
     /\ "querier" \in ValidRolesNextToUnknown(relations[i])
     /\ Published(relations[i]) # {}
     /\ Count("querier") = 0
     /\ AddressesOf("querier") = {}
     /\ \E j \in DOMAIN relations : j # i /\ Decodes(relations[j])

\* C24: building the configuration leaves the S3 descriptor as it was: in
\* every step in which the Coordinator calls workers_config, the descriptor
\* has the same keys and values after the call as before it.
C24_BuildLeavesDescriptorUnchanged ==
  [][workers_config => s3_config' = s3_config]_vars

\* the coordinator's databag of the relation is the dump of a non-empty
\* config document
HoldsNonEmptyConfig(relation) ==
  \E mimir_config \in PublishedConfigs \ {EmptyDict} :
     \E loki_endpoints \in PublishedEndpoints :
        relation.coordinator_app_data
          = dump("MimirClusterProviderAppData",
                 [mimir_config |-> mimir_config, loki_endpoints |-> loki_endpoints])

\* the worker has published: the unit databag is the dump of an address and
\* the application databag the dump of a list of roles
LocalDataValid(relation, unit_data) ==
  /\ unit_data \in { UnitDatabagOf(address) : address \in Addresses }
  /\ relation.app_data
       \in { AppDatabagOf(json_dumps_list(roles)) : roles \in PublishedRoleLists }

\* the events the claim allows a relation-changed hook to emit on a unit
EventsAllowed(relation, unit_data) ==
  IF relation.coordinator_app # None /\ HoldsNonEmptyConfig(relation)
  THEN { <<ConfigReceivedEvent(config)>> : config \in PublishedConfigs \ {EmptyDict} }
  ELSE IF relation.coordinator_app # None /\ LocalDataValid(relation, unit_data)
       THEN { <<MimirClusterRemovedEvent>> }
       ELSE { <<>> }

\* C25: on relation-changed the requirer emits at most one event:
\* config_received exactly when the relation is healthy and the
\* coordinator's databag holds a valid, non-empty mimir_config; removed
\* exactly when the relation is healthy, there is no such config and the
\* local unit and application databags both validate; nothing otherwise.
\* What the last hook emitted is one of the outcomes the claim allows.
C25_AtMostOneEventPerRelationChanged ==
  /\ \A i \in DOMAIN relations : \A unit_data \in BagToSet(relations[i].units) :
        LET events == _on_mimir_cluster_relation_changed(relations[i], unit_data)
        IN  /\ Len(events) <= 1
            /\ events \in EventsAllowed(relations[i], unit_data)
            /\ \A k \in DOMAIN events :
                  events[k].event = "ConfigReceivedEvent" =>
                     dump("MimirClusterProviderAppData",
                          [mimir_config |-> events[k].config,
                           loki_endpoints |-> NoneType])["mimir_config"]
                       = relations[i].coordinator_app_data["mimir_config"]
  /\ Len(emitted) <= 1
  /\ \A k \in DOMAIN emitted :
        emitted[k].event \in {"ConfigReceivedEvent", "MimirClusterRemovedEvent"}

\* the last hook emitted removed; the cluster has a relation with an empty
\* config published on which a published unit emits removed, a relation
\* that is not healthy on which nothing is emitted, and after a config is
\* published the same unit emits config_received
C25_Witness ==
  /\ emitted = <<MimirClusterRemovedEvent>>
  /\ \E i \in DOMAIN relations : \E unit_data \in BagToSet(relations[i].units) :
        /\ get_mimir_config(relations[i]) = EmptyDict
        /\ DOMAIN relations[i].coordinator_app_data # {}
        /\ _on_mimir_cluster_relation_changed(relations[i], unit_data)
             = <<MimirClusterRemovedEvent>>
        /\ _on_mimir_cluster_relation_changed(
              publish_data(relations, ScaledConfig, NoneType)[i], unit_data)
             = <<ConfigReceivedEvent(ScaledConfig)>>
  /\ \E i \in DOMAIN relations : \E unit_data \in BagToSet(relations[i].units) :
        /\ relations[i].coordinator_app = None
        /\ LocalDataValid(relations[i], unit_data)
        /\ _on_mimir_cluster_relation_changed(relations[i], unit_data) = <<>>

\* C30: a ConfigReceivedEvent restored from its own snapshot carries the
\* config of the original event: every ConfigReceivedEvent handed to the
\* observers has a config attribute, equal to a config the coordinator
\* published.
C30_RestoredEventCarriesConfig ==
  \A k \in DOMAIN emitted :
     emitted[k].event = "ConfigReceivedEvent" =>
        /\ "config" \in DOMAIN emitted[k]
        /\ emitted[k].config \in PublishedConfigs

\* C28: in every cluster view and for every role r, the number of distinct
\* addresses in gather_addresses_by_role()[r] is at most
\* gather_roles().get(r, 0).
C28_AddressesNeverExceedCount ==
  \A r \in DOMAIN gather_addresses_by_role(relations) \cup MimirRole :
     Cardinality(AddressesOf(r)) <= Count(r)

\* C26: the hash stored at ALERTS_HASH_PATH is the hash of the current
\* remote-write alert rules only if the rule files of these rules were
\* pushed and the mimirtool rules sync for them was started without error;
\* so a reconcile whose push or sync failed leaves a hash that makes the
\* next reconcile sync again.
C26_StoredHashMeansSynced ==
  nginx_container.alerts_hash = sha256(str(alerts))
    => reconciled.synced = Done(alerts)

\* the last reconcile made none of the calls that touch the rules, the hash
\* file or mimirtool
RulesUntouched ==
  /\ reconciled'.calls \in {<<>>, <<"push /usr/bin/mimirtool">>}
  /\ nginx_container'.rules = nginx_container.rules
  /\ nginx_container'.alerts_hash = nginx_container.alerts_hash
  /\ reconciled'.synced = reconciled.synced

\* C27: when the alert rules are those of the last _set_alerts that ran to
\* its end, a reconcile does not remove RULES_DIR, pushes no rule file,
\* does not rewrite the hash file and does not run mimirtool.
C27_NoWorkWhenRulesAsLastCompleted ==
  [][ (reconcile /\ reconciled.completed = Done(alerts)) => RulesUntouched ]_vars

\* what the comparison of hashes in _set_alerts does give: when the hash
\* stored at ALERTS_HASH_PATH is the hash of the current alert rules, a
\* reconcile makes none of these calls
NoWorkWhenStoredHashMatches ==
  [][ (reconcile /\ nginx_container.alerts_hash = sha256(str(alerts)))
      => RulesUntouched ]_vars

\* rules were pushed and synced, and the last reconcile, with the same
\* rules and Pebble answering, made no call
SyncedThenIdle ==
  /\ alerts # <<>>
  /\ nginx_container.can_connect
  /\ nginx_container.alerts_hash = sha256(str(alerts))
  /\ nginx_container.rules = RuleFiles(alerts)
  /\ reconciled.synced = Done(alerts)
  /\ reconciled.completed = Done(alerts)
  /\ reconciled.calls = <<>>

\* the last _update_config did not render the config and neither read nor
\* wrote the config file
NoConfigWork == workload'.calls = <<>> /\ workload'.rendered = NoneType

\* C29: when the workload container cannot be connected to, _update_config
\* sets the config status to WaitingStatus('Workload is not yet
\* available'), passes it to the status callback, and neither renders the
\* config nor reads or writes the config file; when the container is
\* reachable it writes the file only if the rendered config differs from
\* the one on disk.
C29_UnreachableWaitsReachableWritesOnChange ==
  [][ update_config =>
        IF ~is_ready(workload)
        THEN /\ workload'.status = WaitingStatus("Workload is not yet available")
             /\ workload'.notified = <<WaitingStatus("Workload is not yet available")>>
             /\ NoConfigWork
        ELSE \A k \in DOMAIN workload'.calls :
                workload'.calls[k] = "write_file" =>
                   \/ workload.config_file = None
                   \/ yaml_dump(workload'.rendered) # workload.config_file ]_vars

\* what the code does give: with the container reachable the file is
\* written only if the rendered config differs from the one on disk, and
\* once _update_config has ended without exception and without a warning
\* the file holds the rendered config
WritesOnlyOnChange ==
  [][ (update_config /\ is_ready(workload)) =>
        /\ \A k \in DOMAIN workload'.calls :
              workload'.calls[k] = "write_file" =>
                 \/ workload.config_file = None
                 \/ yaml_dump(workload'.rendered) # workload.config_file
        /\ workload'.status = ActiveStatus =>
              workload'.config_file = yaml_dump(workload'.rendered) ]_vars

=============================================================================
